---- MODULE Spec2Model ----
(***************************************************************************)
(* The private-token client: the note store (client/src/state.rs), the     *)
(* commitment scheme (client/src/crypto.rs) and the mint / transfer        *)
(* builders (client/src/main.rs).                                          *)
(*                                                                         *)
(* A 32-byte value is either the big-endian image of an integer, U(v), or  *)
(* the output of the hash over a list of 32-byte blocks, Hash(blocks).     *)
(* The hash (SHA-256 in the source) is taken collision-free.  A hex string *)
(* is the record [ok, pfx, len, val]: whether hex::decode accepts it,      *)
(* whether it starts with "0x", how many bytes it decodes to, and the      *)
(* value of those bytes read as a big-endian number (or hash output).      *)
(* u128 is scaled to 0..U128Max so that the sums the code computes can     *)
(* leave the type within the bounds of the model.                          *)
(***************************************************************************)
EXTENDS Integers, Sequences, FiniteSets, TLC

VARIABLES
    opened,           \* a StateManager value exists (StateManager::new returned Ok)
    commitments,      \* StateManager.commitments: commitment hash -> Commitment
    accounts,         \* StateManager.accounts: address -> secret
    disk,             \* the state file: absent, a complete document, or a torn write
    faults,           \* how many writes of the state file have failed
    last,             \* the last call and what it returned
    chain             \* the proofs PrivateTokenContract::mint / ::transfer have submitted

vars == <<opened, commitments, accounts, disk, faults, last, chain>>

----------------------------------------------------------------------------
\* Bounds of the model.
MaxAmount == 2
MaxClock == 2
MaxNotes == 3
MaxFaults == 1
U128Max == 3
\* u64 on the model's scale: as in the source, the clock is far below it.
U64Max == 9

Amounts == 0..MaxAmount
\* SystemTime::now(), in whole seconds since the epoch.
Now == 1..MaxClock
U128Mod == U128Max + 1

----------------------------------------------------------------------------
\* crypto.rs

U(v) == <<"u", v>>
Hash(blocks) == <<"h", blocks>>

\* Mutant: the hash takes in how many notes the state file holds.
pedersen_hash_counting(inputs) ==
    Hash(inputs \o <<U(Cardinality(DOMAIN disk.commitments))>>)

pedersen_hash(inputs) == Hash(inputs)

derive_address(secret) == pedersen_hash(<<secret>>)

u128_to_bytes32(value) == U(value)

u64_to_bytes32(value) == U(value)

\* Mutant: the balance and the nonce hashed in the wrong order.
compute_commitment_swapped(address, balance, nonce) ==
    pedersen_hash(<<address, u64_to_bytes32(nonce), u128_to_bytes32(balance)>>)

compute_commitment(address, balance, nonce) ==
    pedersen_hash(<<address, u128_to_bytes32(balance), u64_to_bytes32(nonce)>>)

compute_nullifier(secret, nonce) ==
    pedersen_hash(<<secret, u64_to_bytes32(nonce)>>)

Zero32 == U(0)

bytes32_to_hex(bytes) == [ok |-> TRUE, pfx |-> TRUE, len |-> 32, val |-> bytes]

\* Mutant: the "0x" prefix is not stripped before hex::decode.
hex_to_bytes32_unstripped(hex_str) ==
    IF ~hex_str.ok \/ hex_str.pfx THEN [ok |-> FALSE, bytes |-> Zero32]
    ELSE IF hex_str.len <= 32 THEN [ok |-> TRUE, bytes |-> hex_str.val]
    ELSE [ok |-> TRUE, bytes |-> Zero32]

\* Ok(bytes) or Err(FromHexError).  A string of fewer than 32 bytes is
\* left-padded, one of more than 32 bytes yields the zero array.
hex_to_bytes32(hex_str) ==
    IF ~hex_str.ok THEN [ok |-> FALSE, bytes |-> Zero32]
    ELSE IF hex_str.len = 32 THEN [ok |-> TRUE, bytes |-> hex_str.val]
    ELSE IF hex_str.len < 32 THEN [ok |-> TRUE, bytes |-> hex_str.val]
    ELSE [ok |-> TRUE, bytes |-> Zero32]

----------------------------------------------------------------------------
\* Inputs.

SecretA == U(1)
SecretB == U(2)
Secrets == {SecretA, SecretB}
\* what generate_secret draws
NewSecrets == {SecretA}
AddrA == derive_address(SecretA)
AddrB == derive_address(SecretB)

\* String::new()
EmptyStr == [ok |-> TRUE, pfx |-> FALSE, len |-> 0, val |-> Zero32]
\* a string hex::decode rejects (odd length, or a character that is no hex digit)
BadHex == [ok |-> FALSE, pfx |-> TRUE, len |-> 0, val |-> Zero32]
\* "0x" followed by 33 bytes
LongHex == [ok |-> TRUE, pfx |-> TRUE, len |-> 33, val |-> U(1)]

SecretInputs == {bytes32_to_hex(SecretA), bytes32_to_hex(SecretB), BadHex}
AddressInputs == {bytes32_to_hex(AddrA), bytes32_to_hex(AddrB), LongHex, BadHex}

----------------------------------------------------------------------------
\* state.rs: the store is the triple [c, a, d] of commitments, accounts and
\* the state file.

EmptyMap == <<>>

\* Mutant: the insertion drops the other entries of the map.
Insert_alone(m, k, v) == [x \in {k} |-> v]

Insert(m, k, v) == [x \in DOMAIN m \cup {k} |-> IF x = k THEN v ELSE m[x]]

\* The state file: missing, holding a complete document, or holding text
\* serde_json cannot parse (an empty file, a document cut short).
NoFile == [kind |-> "absent", commitments |-> EmptyMap, accounts |-> EmptyMap]
BadFile == [kind |-> "unparsable", commitments |-> EmptyMap, accounts |-> EmptyMap]
Doc(c, a) == [kind |-> "doc", commitments |-> c, accounts |-> a]

\* StateManager::new: empty maps, loaded from the state file when it exists.
new(d) ==
    IF d.kind = "unparsable"
    THEN [st |-> [c |-> EmptyMap, a |-> EmptyMap, d |-> d], res |-> "SerializationError"]
    ELSE [st |-> [c |-> d.commitments, a |-> d.accounts, d |-> d], res |-> "Ok"]

\* How a write of the state file can end: written, refused with the file
\* untouched, or stopped after the truncation and before the document is
\* complete (an error in the middle of the write, or the process killed
\* there: fs::write opens the file with truncation and then writes).
IO == {"ok", "fail", "torn"}

\* The outcomes of up to three writes in a row: a call stops at its first
\* failed write, so what the later ones would do is left at "ok".
IOSeqs ==
    {ios \in [1..3 -> IO] :
        \A i \in 1..2 : ios[i] # "ok" => \A j \in (i+1)..3 : ios[j] = "ok"}

\* Mutant: the document written leaves the accounts out.
save_without_accounts(st, io) ==
    IF io = "ok" THEN [st |-> [st EXCEPT !.d = Doc(st.c, EmptyMap)], res |-> "Ok"]
    ELSE IF io = "fail" THEN [st |-> st, res |-> "IoError"]
    ELSE [st |-> [st EXCEPT !.d = BadFile], res |-> "IoError"]

\* StateManager::save: fs::write truncates the file and writes the document.
save(st, io) ==
    IF io = "ok" THEN [st |-> [st EXCEPT !.d = Doc(st.c, st.a)], res |-> "Ok"]
    ELSE IF io = "fail" THEN [st |-> st, res |-> "IoError"]
    ELSE [st |-> [st EXCEPT !.d = BadFile], res |-> "IoError"]

add_account(st, address, secret, io) ==
    save([st EXCEPT !.a = Insert(st.a, address, secret)], io)

\* Mutant: a note whose hash is stored already is not replaced.
add_commitment_keep(st, commitment, io) ==
    IF commitment.commitment \in DOMAIN st.c THEN save(st, io)
    ELSE save([st EXCEPT !.c = Insert(st.c, commitment.commitment, commitment)], io)

add_commitment(st, commitment, io) ==
    save([st EXCEPT !.c = Insert(st.c, commitment.commitment, commitment)], io)

\* The Option get_commitment returns: {c} is Some(c), {} is None.
get_commitment(m, commitment_hash) ==
    IF commitment_hash \in DOMAIN m THEN {m[commitment_hash]} ELSE {}

\* Mutant: the spent flag is not looked at.
get_unspent_commitments_all(m, address) ==
    {m[k] : k \in {x \in DOMAIN m : m[x].address = address}}

get_unspent_commitments(m, address) ==
    {m[k] : k \in {x \in DOMAIN m : m[x].address = address /\ ~m[x].spent}}

\* Mutant: an unknown commitment is not reported.
mark_spent_unchecked(st, commitment_hash, io) ==
    IF commitment_hash \in DOMAIN st.c
    THEN save([st EXCEPT !.c[commitment_hash].spent = TRUE], io)
    ELSE save(st, io)

\* Mutant: the flag is flipped instead of set.
mark_spent_toggle(st, commitment_hash, io) ==
    IF commitment_hash \in DOMAIN st.c
    THEN save([st EXCEPT !.c[commitment_hash].spent = ~@], io)
    ELSE [st |-> st, res |-> "CommitmentNotFound"]

mark_spent(st, commitment_hash, io) ==
    IF commitment_hash \in DOMAIN st.c
    THEN save([st EXCEPT !.c[commitment_hash].spent = TRUE], io)
    ELSE [st |-> st, res |-> "CommitmentNotFound"]

RECURSIVE SumBalance(_)
SumBalance(S) ==
    IF S = {} THEN 0
    ELSE LET n == CHOOSE x \in S : TRUE IN n.balance + SumBalance(S \ {n})

\* The value a panic leaves in place of a result.
Panic == -1

\* Iterator::sum over u128: an overflow panics in a build with overflow
\* checks (the debug profile) and wraps in one without (the release profile).
get_balance(m, address, overflow_checks) ==
    LET s == SumBalance(get_unspent_commitments(m, address)) IN
    IF s <= U128Max THEN s
    ELSE IF overflow_checks THEN Panic ELSE s % U128Mod

\* Mutant: a note is returned when the unspent notes of the address cover
\* the amount together.
find_spendable_commitment_combined(m, address, amount) ==
    {c \in get_unspent_commitments(m, address) :
        SumBalance(get_unspent_commitments(m, address)) >= amount}

\* Mutant: the address of the note is not compared with the sender's.
find_spendable_commitment_anyone(m, address, amount) ==
    {m[k] : k \in {x \in DOMAIN m : ~m[x].spent /\ m[x].balance >= amount}}

\* The notes Iterator::find can return: HashMap::values has no defined
\* order, so the first fit is any unspent note of the address that covers
\* the amount.  The empty set is None.
\* Mutant: the balance of the note is not compared with the amount.
find_spendable_commitment_any(m, address, amount) ==
    get_unspent_commitments(m, address)

find_spendable_commitment(m, address, amount) ==
    {c \in get_unspent_commitments(m, address) : c.balance >= amount}

----------------------------------------------------------------------------
\* main.rs: the commands.  Each returns the store it leaves and its result.

Out(st, res) == [st |-> st, res |-> res]

\* The Commitment mint_tokens registers.
mint_commitment(address, secret_hex, amount, nonce) ==
    [commitment |-> bytes32_to_hex(compute_commitment(address, amount, nonce)),
     address |-> bytes32_to_hex(address),
     balance |-> amount,
     nonce |-> nonce,
     secret |-> secret_hex,
     spent |-> FALSE]

\* Mutant: the mint consumes the earlier notes of the address.
mint_tokens_consuming(st, secret_hex, amount, now, io) ==
    LET secret == hex_to_bytes32(secret_hex) IN
    IF ~secret.ok THEN Out(st, "HexError")
    ELSE LET address == derive_address(secret.bytes)
             used == [k \in DOMAIN st.c |->
                         IF st.c[k].address = bytes32_to_hex(address)
                         THEN [st.c[k] EXCEPT !.spent = TRUE] ELSE st.c[k]]
         IN add_commitment([st EXCEPT !.c = used],
                           mint_commitment(address, secret_hex, amount, now), io)

\* mint_tokens, run at second `now` of the system clock.
mint_tokens(st, secret_hex, amount, now, io) ==
    LET secret == hex_to_bytes32(secret_hex) IN
    IF ~secret.ok THEN Out(st, "HexError")
    ELSE LET address == derive_address(secret.bytes)
             nonce == now
         IN add_commitment(st, mint_commitment(address, secret_hex, amount, nonce), io)

\* The sender's change Commitment of transfer_tokens.
output_commitment_sender(sender_address, from_secret_hex, new_balance, new_nonce) ==
    [commitment |-> bytes32_to_hex(compute_commitment(sender_address, new_balance, new_nonce)),
     address |-> bytes32_to_hex(sender_address),
     balance |-> new_balance,
     nonce |-> new_nonce,
     secret |-> from_secret_hex,
     spent |-> FALSE]

\* The recipient's Commitment of transfer_tokens.
output_commitment_recipient(recipient_address, to_address_hex, amount) ==
    [commitment |-> bytes32_to_hex(compute_commitment(recipient_address, amount, 0)),
     address |-> to_address_hex,
     balance |-> amount,
     nonce |-> 0,
     secret |-> EmptyStr,
     spent |-> FALSE]

\* transfer_tokens from the selected note on.
spend(st, spendable, sender_address, from_secret_hex, recipient_address, to_address_hex, amount, ios) ==
    LET new_balance == spendable.balance - amount
        new_nonce == spendable.nonce + 1
        input_commitment == hex_to_bytes32(spendable.commitment)
        r1 == mark_spent(st, spendable.commitment, ios[1])
        r2 == IF new_balance > 0
              THEN add_commitment(r1.st,
                       output_commitment_sender(sender_address, from_secret_hex,
                                                new_balance, new_nonce),
                       ios[2])
              ELSE r1
        r3 == add_commitment(r2.st,
                  output_commitment_recipient(recipient_address, to_address_hex, amount),
                  ios[3])
    IN  IF ~input_commitment.ok THEN Out(st, "HexError")
        ELSE IF r1.res # "Ok" THEN r1
        ELSE IF r2.res # "Ok" THEN r2
        ELSE r3

\* The outcomes of transfer_tokens: one for each note the selection can return.
transfer_tokens(st, from_secret_hex, to_address_hex, amount, ios) ==
    LET sender_secret == hex_to_bytes32(from_secret_hex)
        sender_address == derive_address(sender_secret.bytes)
        sender_address_hex == bytes32_to_hex(sender_address)
        recipient_address == hex_to_bytes32(to_address_hex)
        found == find_spendable_commitment(st.c, sender_address_hex, amount)
    IN  IF ~sender_secret.ok THEN {Out(st, "HexError")}
        ELSE IF ~recipient_address.ok THEN {Out(st, "HexError")}
        ELSE IF found = {} THEN {Out(st, "Insufficient balance")}
        ELSE {spend(st, spendable, sender_address, from_secret_hex,
                    recipient_address.bytes, to_address_hex, amount, ios)
                  : spendable \in found}

\* new_account: a fresh secret, registered under its address.
new_account(st, secret, io) ==
    add_account(st, bytes32_to_hex(derive_address(secret)), bytes32_to_hex(secret), io)

----------------------------------------------------------------------------
\* The state machine.  commitments and accounts are the maps of the
\* StateManager in use: the one a caller of the library holds, or the one of
\* the last run of the command-line client when it exited.

Store == [c |-> commitments, a |-> accounts, d |-> disk]

\* A call, what it returned, and whether it changed what it was run on.
Call(op, res, changed) == [op |-> op, res |-> res, changed |-> changed]

\* The store of the model holds at most MaxNotes notes, and at most
\* MaxFaults writes of the state file fail.
Room(st) == Cardinality(DOMAIN st.c) <= MaxNotes
Writes == IF faults < MaxFaults THEN IO ELSE {"ok"}
WriteSeqs == IF faults < MaxFaults THEN IOSeqs ELSE {[i \in 1..3 |-> "ok"]}

\* The step a call makes: it leaves r.st and returns r.res.
Step(op, r) ==
    /\ Room(r.st)
    /\ opened' = (r.res # "SerializationError")
    /\ commitments' = r.st.c
    /\ accounts' = r.st.a
    /\ disk' = r.st.d
    /\ faults' = IF r.res = "IoError" THEN faults + 1 ELSE faults
    /\ last' = Call(op, r.res, r.st # Store)
    /\ chain' = chain

Init ==
    /\ opened = FALSE
    /\ commitments = EmptyMap
    /\ accounts = EmptyMap
    /\ disk \in {NoFile, BadFile}
    /\ faults = 0
    /\ last = Call("init", "Ok", FALSE)
    /\ chain = {}

\* The library, as the unit tests of state.rs use it: one StateManager, and
\* calls of its methods.

Open == Step("new", new(disk))

AddAccount ==
    \E secret \in NewSecrets, io \in Writes :
        /\ opened
        /\ Step("add_account",
                add_account(Store, bytes32_to_hex(derive_address(secret)),
                            bytes32_to_hex(secret), io))

\* Notes a caller hands to add_commitment: two as mint builds them, and two
\* whose commitment field is a short or an odd-length string, as in the
\* unit tests.
ShortKey == [ok |-> TRUE, pfx |-> TRUE, len |-> 2, val |-> U(1)]
NoteInputs ==
    {mint_commitment(AddrA, bytes32_to_hex(SecretA), 1, 1),
     mint_commitment(AddrA, bytes32_to_hex(SecretA), 2, 2),
     [mint_commitment(AddrA, bytes32_to_hex(SecretA), 2, 1) EXCEPT !.commitment = ShortKey],
     [mint_commitment(AddrB, bytes32_to_hex(SecretB), 1, 1) EXCEPT !.commitment = BadHex]}

AddCommitment ==
    \E commitment \in NoteInputs, io \in Writes :
        /\ opened
        /\ Step("add_commitment", add_commitment(Store, commitment, io))

\* A commitment hash no note has.
AbsentKey == bytes32_to_hex(Zero32)

MarkSpent ==
    \E commitment_hash \in DOMAIN commitments \cup {AbsentKey}, io \in Writes :
        /\ opened
        /\ Step("mark_spent", mark_spent(Store, commitment_hash, io))

Next ==
    \/ Open
    \/ AddAccount
    \/ AddCommitment
    \/ MarkSpent

Spec == Init /\ [][Next]_vars

\* The command-line client: every command is a run of main, which builds
\* its StateManager from the state file, runs the command on it and exits,
\* so that no StateManager is left and the next run sees the state file alone.
\* The outcomes of a command are a set, one for each note the selection of
\* a transfer can return.

Exit(op, r) ==
    /\ Room(r.st)
    /\ opened' = FALSE
    /\ commitments' = EmptyMap
    /\ accounts' = EmptyMap
    /\ disk' = r.st.d
    /\ faults' = IF r.res = "IoError" THEN faults + 1 ELSE faults
    /\ last' = Call(op, r.res, r.st # new(disk).st)
    /\ chain' = chain

\* main: the command runs only when StateManager::new has succeeded.
main(state, outcomes) ==
    IF state.res # "Ok" THEN {state} ELSE outcomes

NewAccount ==
    \E secret \in NewSecrets, io \in Writes :
        LET state == new(disk)
        IN \E r \in main(state, {new_account(state.st, secret, io)}) :
               Exit("new_account", r)

\* The calls of mint: tokens are minted to one holder, the other receives
\* them by transfer.  A secret that does not decode ends the command before
\* anything else is read: one call stands for all of them.
MintInputs ==
    {in \in {bytes32_to_hex(SecretA), BadHex} \X Amounts \X Now :
        in[1] = BadHex => (in[2] = 0 /\ in[3] = 1)}

Mint ==
    \E in \in MintInputs, io \in Writes :
        LET state == new(disk)
        IN \E r \in main(state, {mint_tokens(state.st, in[1], in[2], in[3], io)}) :
               Exit("mint", r)

TransferInputs ==
    {in \in SecretInputs \X AddressInputs \X Amounts :
        (in[1] = BadHex \/ in[2] = BadHex) => in[3] = 0}

Transfer ==
    \E in \in TransferInputs, ios \in WriteSeqs :
        LET state == new(disk)
        IN \E r \in main(state, transfer_tokens(state.st, in[1], in[2], in[3], ios)) :
               Exit("transfer", r)

NextCli ==
    \/ NewAccount
    \/ Mint
    \/ Transfer

SpecCli == Init /\ [][NextCli]_vars

----------------------------------------------------------------------------
\* Properties.  Loaded is the store a run of the command-line client starts
\* from; Builds are the two settings of overflow checks.

Loaded == new(disk).st
Builds == BOOLEAN
AllOk == [i \in 1..3 |-> "ok"]
HexA == bytes32_to_hex(AddrA)
HexB == bytes32_to_hex(AddrB)
Holders == {HexA, HexB, LongHex}
Notes(m) == {m[k] : k \in DOMAIN m}
Unspent(m, address) == {n \in Notes(m) : n.address = address /\ ~n.spent}

\* C1: a note that is durably spent stays spent: whatever command runs
\* next, the state file it leaves still holds the note, spent, no selection
\* returns it and no balance counts it.
C1_NoDoubleSpend ==
    [][\A c \in DOMAIN disk.commitments :
          (disk.commitments[c].spent /\ disk'.kind = "doc") =>
              LET m == disk'.commitments IN
              /\ c \in DOMAIN m
              /\ m[c].spent
              /\ \A address \in Holders, amount \in Amounts :
                     \A n \in find_spendable_commitment(m, address, amount) :
                         n.commitment # c
              /\ \A address \in Holders :
                     get_balance(m, address, FALSE)
                         = get_balance([k \in DOMAIN m \ {c} |-> m[k]], address, FALSE)]_vars

\* C2: for every address, balance(address) is the sum of the balances of
\* the unspent notes of that address, in either build.
C2_BalanceIsSum ==
    \A address \in Holders, build \in Builds :
        get_balance(Loaded.c, address, build) = SumBalance(Unspent(Loaded.c, address))

\* The secrets and recipient addresses that decode.
GoodSecrets == SecretInputs \ {BadHex}
GoodAddresses == AddressInputs \ {BadHex}
AddressOf(secret_hex) == bytes32_to_hex(Hash(<<secret_hex.val>>))

\* C3: after a mint of K to A into an empty store, a transfer of J <= K
\* from A to another address B leaves balance(A) = K - J and balance(B) = J.
C3_BalanceConservation ==
    (last = Call("mint", "Ok", TRUE) /\ Cardinality(DOMAIN Loaded.c) = 1) =>
        \A minted \in Notes(Loaded.c) :
            \A to \in GoodAddresses \ {minted.address}, J \in 0..minted.balance :
                \A r \in transfer_tokens(Loaded, minted.secret, to, J, AllOk) :
                    /\ r.res = "Ok"
                    /\ \A build \in Builds :
                           /\ get_balance(r.st.c, minted.address, build) = minted.balance - J
                           /\ get_balance(r.st.c, to, build) = J

\* A transfer has run on the store that a single mint of 2 left, and moved 1.
C3_Witness ==
    /\ last = Call("transfer", "Ok", TRUE)
    /\ Cardinality(DOMAIN Loaded.c) = 3
    /\ \E n \in Notes(Loaded.c) : n.spent /\ n.balance = 2 /\ n.address = HexA
    /\ get_balance(Loaded.c, HexA, TRUE) = 1
    /\ get_balance(Loaded.c, HexB, TRUE) = 1

\* C4: a successful transfer marks the selected note spent, registers the
\* unspent recipient note, and registers the unspent change note exactly
\* when the selected note holds more than the amount.
C4_TransferEffect ==
    \A from_secret_hex \in GoodSecrets, to_address_hex \in GoodAddresses, amount \in Amounts :
        \A spendable \in find_spendable_commitment(Loaded.c, AddressOf(from_secret_hex), amount) :
            LET r == spend(Loaded, spendable,
                           derive_address(hex_to_bytes32(from_secret_hex).bytes),
                           from_secret_hex, hex_to_bytes32(to_address_hex).bytes,
                           to_address_hex, amount, AllOk)
                m1 == Loaded.c
                m2 == r.st.c
                b == spendable.balance
                n == spendable.nonce
                sender == hex_to_bytes32(spendable.address).bytes
                recipient == hex_to_bytes32(to_address_hex).bytes
                rkey == bytes32_to_hex(Hash(<<recipient, U(amount), U(0)>>))
                ckey == bytes32_to_hex(Hash(<<sender, U(b - amount), U(n + 1)>>))
            IN  r.res = "Ok" =>
                    /\ spendable.commitment \in DOMAIN m2
                    /\ m2[spendable.commitment].spent
                    /\ rkey \in DOMAIN m2
                    /\ m2[rkey].address = to_address_hex
                    /\ m2[rkey].balance = amount
                    /\ m2[rkey].nonce = 0
                    /\ ~m2[rkey].spent
                    /\ IF b - amount > 0
                       THEN /\ ckey \in DOMAIN m2
                            /\ m2[ckey].address = spendable.address
                            /\ m2[ckey].balance = b - amount
                            /\ m2[ckey].nonce = n + 1
                            /\ ~m2[ckey].spent
                       ELSE DOMAIN m2 = DOMAIN m1 \cup {rkey}

\* C5: when no unspent note of the sender covers the amount, transfer
\* returns the insufficient-balance error and leaves the notes, the accounts
\* and the state file as they were.
C5_InsufficientFunds ==
    \A from_secret_hex \in GoodSecrets, to_address_hex \in GoodAddresses,
       amount \in Amounts, ios \in IOSeqs :
        (\A n \in Unspent(Loaded.c, AddressOf(from_secret_hex)) : n.balance < amount) =>
            transfer_tokens(Loaded, from_secret_hex, to_address_hex, amount, ios)
                = {Out(Loaded, "Insufficient balance")}

\* A transfer was refused for want of funds while the sender held an unspent note.
C5_Witness ==
    /\ last = Call("transfer", "Insufficient balance", FALSE)
    /\ Unspent(Loaded.c, HexA) # {}

\* C6: a transfer that fails after the selection leaves the notes as they
\* were before it: the state file it leaves, when it can be read, holds the
\* notes it held, the input note unspent.
C6_TransferAllOrNothing ==
    [][(last'.op = "transfer" /\ last'.res = "IoError" /\ disk'.kind = "doc")
           => disk'.commitments = disk.commitments]_vars

\* C7: no two unspent notes have the same address and the same nonce.
C7_NullifierUnique ==
    \A n1, n2 \in Notes(Loaded.c) :
        (n1 # n2 /\ ~n1.spent /\ ~n2.spent /\ n1.address = n2.address)
            => n1.nonce # n2.nonce

\* C8: the commitment of every stored note is the hash of the note's own
\* address, balance and nonce, and the note is stored under it.
C8_CommitmentIntegrity ==
    \A k \in DOMAIN Loaded.c :
        LET n == Loaded.c[k]
            address == hex_to_bytes32(n.address)
        IN  /\ address.ok
            /\ n.commitment = k
            /\ k = bytes32_to_hex(Hash(<<address.bytes, U(n.balance), U(n.nonce)>>))

\* A transfer has left a spent note, a change note and a recipient note.
C8_Witness ==
    /\ last = Call("transfer", "Ok", TRUE)
    /\ \E n1, n2, n3 \in Notes(Loaded.c) :
           /\ n1.spent /\ n1.address = HexA
           /\ ~n2.spent /\ n2.address = HexA /\ n2.nonce = n1.nonce + 1
           /\ ~n3.spent /\ n3.address = HexB /\ n3.nonce = 0
           /\ n1.balance = n2.balance + n3.balance

\* The commitment hashes a caller can name.
Keys == {AbsentKey} \cup {n.commitment : n \in NoteInputs}

\* C9: mark_spent of a commitment the store does not hold fails with
\* CommitmentNotFound and leaves the notes, the accounts and the state file
\* as they were.
C9_MarkSpentNotFound ==
    opened =>
        \A commitment_hash \in Keys \ DOMAIN commitments, io \in IO :
            mark_spent(Store, commitment_hash, io)
                = [st |-> Store, res |-> "CommitmentNotFound"]

\* mark_spent was refused on a store that holds notes.
C9_Witness ==
    /\ last = Call("mark_spent", "CommitmentNotFound", FALSE)
    /\ DOMAIN commitments # {}

\* C10: mark_spent of a stored note that is spent already succeeds when the
\* state file can be written, and leaves the notes and the accounts as they
\* were, the state file holding them.
C10_MarkSpentIdempotent ==
    opened =>
        \A commitment_hash \in DOMAIN commitments, io \in IO :
            commitments[commitment_hash].spent =>
                LET r == mark_spent(Store, commitment_hash, io)
                IN  /\ r.st.c = commitments
                    /\ r.st.a = accounts
                    /\ io = "ok" => (r.res = "Ok" /\ r.st.d = Doc(commitments, accounts))
                    /\ io # "ok" => r.res = "IoError"

\* mark_spent has succeeded on a note that was spent and written already.
C10_Witness ==
    /\ last = Call("mark_spent", "Ok", FALSE)
    /\ \E n \in Notes(commitments) : n.spent
    /\ disk = Doc(commitments, accounts)

\* C11: find_spendable(address, amount) returns only stored, unspent notes
\* of the address with balance >= amount, and returns none exactly when no
\* single such note exists, whatever the other notes of the address sum to.
C11_FindSpendable ==
    \A address \in Holders, amount \in Amounts :
        LET found == find_spendable_commitment(Loaded.c, address, amount)
            fits == {n \in Notes(Loaded.c) :
                        n.address = address /\ ~n.spent /\ n.balance >= amount}
        IN  /\ found \subseteq fits
            /\ (found = {}) <=> (fits = {})

\* A transfer was refused while the sender's two unspent notes of 1 each
\* cover the amount 2 together and neither does alone.
C11_Witness ==
    /\ last = Call("transfer", "Insufficient balance", FALSE)
    /\ Cardinality(Unspent(Loaded.c, HexA)) = 2
    /\ \A n \in Unspent(Loaded.c, HexA) : n.balance = 1
    /\ find_spendable_commitment(Loaded.c, HexA, 2) = {}
    /\ SumBalance(Unspent(Loaded.c, HexA)) >= 2

\* The methods of the StateManager that change it.
Mutators == {"add_account", "add_commitment", "mark_spent"}

\* C12: after add_account, add_commitment or mark_spent has returned Ok, a
\* StateManager opened on the same state file holds the notes and the
\* accounts of the one in memory.
C12_DurabilityRoundTrip ==
    (opened /\ last.op \in Mutators /\ last.res = "Ok") =>
        /\ new(disk).res = "Ok"
        /\ new(disk).st.c = commitments
        /\ new(disk).st.a = accounts

\* A mutator has succeeded after an earlier write had failed, on a store
\* that holds an account and a spent note.
C12_Witness ==
    /\ opened
    /\ last.op \in Mutators /\ last.res = "Ok" /\ last.changed
    /\ faults = 1
    /\ accounts # EmptyMap
    /\ \E n \in Notes(commitments) : n.spent

\* C13: whatever happens during a save, the state file afterwards holds a
\* complete document, the previous one or the new one: no command leaves
\* an unreadable state file where there was none.
C13_CrashSafeSave ==
    [][disk'.kind = "unparsable" => disk.kind = "unparsable"]_vars

\* C14: after a mutator has failed on the write of the state file, the
\* StateManager in memory holds what the state file holds (nothing, when
\* there is no file yet): the mutation that failed is not in it.
C14_FailedMutationInvisible ==
    (opened /\ last.op \in Mutators /\ last.res = "IoError" /\ disk.kind # "unparsable") =>
        /\ commitments = disk.commitments
        /\ accounts = disk.accounts

\* C15: a successful mint registers the unspent note {H(address, amount,
\* nonce), address, amount, nonce}, marks no note spent, and leaves every
\* other stored note and the accounts as they were.
C15_MintEffect ==
    new(disk).res = "Ok" =>
        \A secret_hex \in GoodSecrets, amount \in Amounts, now \in Now :
            LET r == mint_tokens(Loaded, secret_hex, amount, now, "ok")
                address == Hash(<<hex_to_bytes32(secret_hex).bytes>>)
                key == bytes32_to_hex(Hash(<<address, U(amount), U(now)>>))
            IN  /\ r.res = "Ok"
                /\ DOMAIN r.st.c = DOMAIN Loaded.c \cup {key}
                /\ r.st.c[key] = [commitment |-> key,
                                  address |-> bytes32_to_hex(address),
                                  balance |-> amount,
                                  nonce |-> now,
                                  secret |-> secret_hex,
                                  spent |-> FALSE]
                /\ \A k \in DOMAIN Loaded.c \ {key} : r.st.c[k] = Loaded.c[k]
                /\ \A k \in DOMAIN Loaded.c : r.st.c[k].spent => Loaded.c[k].spent
                /\ r.st.a = Loaded.a
                /\ r.st.d = Doc(r.st.c, r.st.a)

\* A mint has succeeded on a store that held an account, a spent note and
\* an unspent one.
C15_Witness ==
    /\ last = Call("mint", "Ok", TRUE)
    /\ Cardinality(DOMAIN Loaded.c) = 3
    /\ Loaded.a # EmptyMap
    /\ \E n1, n2 \in Notes(Loaded.c) : n1.spent /\ ~n2.spent /\ n2.nonce = 0

InsufficientBalance(have, need) ==
    "Insufficient balance: have " \o ToString(have) \o ", need " \o ToString(need)

\* C17: when no unspent note of the sender covers the amount, transfer
\* returns InsufficientBalance{have, need} with need the amount and have the
\* largest balance of a single unspent note of the sender, or zero.
C17_TypedInsufficientBalance ==
    new(disk).res = "Ok" =>
        \A from_secret_hex \in GoodSecrets, to_address_hex \in GoodAddresses, amount \in Amounts :
            find_spendable_commitment(Loaded.c, AddressOf(from_secret_hex), amount) = {} =>
                LET held == {n.balance : n \in Unspent(Loaded.c, AddressOf(from_secret_hex))}
                    have == IF held = {} THEN 0
                            ELSE CHOOSE b \in held : \A x \in held : x <= b
                IN  \A r \in transfer_tokens(Loaded, from_secret_hex, to_address_hex, amount, AllOk) :
                        r.res = InsufficientBalance(have, amount)

\* Hex strings that decode to fewer or more than 32 bytes.
Malformed == {h \in {EmptyStr, ShortKey, LongHex} : h.ok /\ h.len # 32}

\* C18: mint and transfer given a secret or an address whose hex decodes to
\* a length other than 32 bytes return an error and leave the store as it
\* was.
C18_MalformedRejected ==
    new(disk).res = "Ok" =>
        /\ \A secret_hex \in Malformed, amount \in Amounts, now \in Now :
               LET r == mint_tokens(Loaded, secret_hex, amount, now, "ok")
               IN r.res # "Ok" /\ r.st = Loaded
        /\ \A from_secret_hex \in Malformed \cup GoodSecrets,
              to_address_hex \in Malformed \cup GoodAddresses, amount \in Amounts :
               (from_secret_hex \in Malformed \/ to_address_hex \in Malformed) =>
                   \A r \in transfer_tokens(Loaded, from_secret_hex, to_address_hex, amount, AllOk) :
                       r.res \notin {"Ok", "Insufficient balance"} /\ r.st = Loaded

\* C19: StateManager::new on a state file that exists and is empty (no
\* write has touched it yet) succeeds and yields a store with no notes and
\* no accounts.
C19_OpenEmptyFile ==
    (last.op = "new" /\ faults = 0 /\ disk = BadFile) =>
        /\ last.res = "Ok"
        /\ opened
        /\ commitments = EmptyMap
        /\ accounts = EmptyMap

\* C20: after add_commitment(n) has succeeded, get_commitment(n.commitment)
\* returns a note with n's fields; get_commitment of a hash the store does
\* not hold returns None.
C20_Lookup ==
    opened =>
        /\ \A n \in NoteInputs :
               LET r == add_commitment(Store, n, "ok")
               IN r.res = "Ok" /\ get_commitment(r.st.c, n.commitment) = {n}
        /\ \A commitment_hash \in Keys \ DOMAIN commitments :
               get_commitment(commitments, commitment_hash) = {}

\* add_commitment has succeeded on a store that holds a spent note, and a
\* hash a caller can name is not stored.
C20_Witness ==
    /\ last = Call("add_commitment", "Ok", TRUE)
    /\ \E n \in Notes(commitments) : n.spent
    /\ Keys \ DOMAIN commitments # {}
    /\ disk = Doc(commitments, accounts)

Bytes32Values ==
    Secrets \cup {AddrA, AddrB, Zero32}
        \cup {compute_commitment(hex_to_bytes32(n.address).bytes, n.balance, n.nonce) :
                 n \in Notes(Loaded.c)}

C23_SubmitBeforeSuccess ==
    (last.op = "transfer" /\ last.res = "Ok") => chain # {}

\* C24: when several unspent notes of an address cover the amount, the
\* selection is the one with the lowest nonce, so that a store's contents
\* determine the note selected.
C24_SelectionLowestNonce ==
    \A address \in Holders, amount \in Amounts :
        LET found == find_spendable_commitment(Loaded.c, address, amount)
        IN  /\ Cardinality(found) <= 1
            /\ \A n \in found :
                   \A x \in Unspent(Loaded.c, address) :
                       x.balance >= amount => n.nonce <= x.nonce

\* C25: every successful mint raises the sum of the balances of all
\* unspent notes by its amount, and every successful transfer leaves that
\* sum as it was.
C25_SupplyInvariant ==
    new(disk).res = "Ok" =>
        LET Supply(m) == SumBalance({n \in Notes(m) : ~n.spent})
        IN  /\ \A secret_hex \in GoodSecrets, amount \in Amounts, now \in Now :
                   LET r == mint_tokens(Loaded, secret_hex, amount, now, "ok")
                   IN r.res = "Ok" => Supply(r.st.c) = Supply(Loaded.c) + amount
            /\ \A from_secret_hex \in GoodSecrets, to_address_hex \in GoodAddresses,
                  amount \in Amounts :
                   \A r \in transfer_tokens(Loaded, from_secret_hex, to_address_hex, amount, AllOk) :
                       r.res = "Ok" => Supply(r.st.c) = Supply(Loaded.c)

\* C26: a transfer marks spent only a note whose address is
\* derive_address of the secret it was given, whatever the recipient, the
\* amount and the outcome of its writes.
C26_SpendAuthorization ==
    \A from_secret_hex \in GoodSecrets \cup Malformed, to_address_hex \in GoodAddresses,
       amount \in Amounts, ios \in IOSeqs :
        \A r \in transfer_tokens(Loaded, from_secret_hex, to_address_hex, amount, ios) :
            \A k \in DOMAIN Loaded.c :
                (~Loaded.c[k].spent /\ r.st.c[k].spent) =>
                    Loaded.c[k].address
                        = bytes32_to_hex(Hash(<<hex_to_bytes32(from_secret_hex).bytes>>))

\* A transfer has spent a second note of the sender while the store held
\* an unspent note of another address.
C26_Witness ==
    /\ last = Call("transfer", "Ok", TRUE)
    /\ Cardinality({n \in Notes(Loaded.c) : n.spent /\ n.address = HexA}) = 2
    /\ \E n \in Notes(Loaded.c) : ~n.spent /\ n.address = HexB /\ n.balance > 0

\* C27: the arithmetic of a transfer and of the balance stays in range: the
\* change balance does not go below zero, the change nonce does not exceed
\* u64, and the sum of the unspent balances of an address does not exceed
\* u128.
C27_ArithmeticInRange ==
    /\ \A from_secret_hex \in GoodSecrets, amount \in Amounts :
           \A spendable \in find_spendable_commitment(Loaded.c, AddressOf(from_secret_hex), amount) :
               /\ spendable.balance - amount >= 0
               /\ spendable.nonce + 1 <= U64Max
    /\ \A address \in Holders :
           SumBalance(get_unspent_commitments(Loaded.c, address)) <= U128Max

====
